---- MODULE Spec2Model ----
(***************************************************************************)
(* mQuest: the route optimization operation (POST /api/optimize and its    *)
(* getOptimizedRoute), the trip page that sends the request and applies    *)
(* the answer to the canvas, the canvas with its travel-time lookups, and  *)
(* the export of the canvas graph as an ordered route.                     *)
(*                                                                         *)
(* Node ids are opaque strings in the program; here they are the numbers   *)
(* 1..MaxNodes, 0 standing for an absent (falsy) id.  A box is modelled by *)
(* its id and its address: title, description and position only reach the *)
(* text of a prompt, never a route or a duration.                          *)
(***************************************************************************)
EXTENDS Integers, Sequences, FiniteSets, TLC

\* ------------------------------------------------------------------ bounds
\* Largest number of boxes in a request sent to the operation.
MaxNodes == 4
\* Largest number of boxes ever dropped on the canvas of the trip page.
MaxBoxes == 3
\* Largest number of operations (drop, delete, link, address edit, clear)
\* a user makes on a canvas.
MaxOps == 2
\* Largest number of travel-time lookups in flight at a time.
MaxLookups == 2
\* Largest number of queries of geminiMaps in flight at a time, and of
\* queries made.
MaxCalls == 2
MaxQueries == 2
\* Largest length of the text of an answer.
MaxText == 5

\* ------------------------------------------------------------- data model
\* A start or end id that is missing from the request body (falsy).
NoId == 0
Ids == 1..MaxNodes
\* An id the AI may name although no box carries it.
ForeignId == MaxNodes + 1

\* Connection.duration values: a computed time, the pending marker of the
\* fallback planner, and "none" for a connection without the field.
Calculating == "Calculating..."
NoDuration == "none"

Conn(f, fs, t, ts, d) ==
    [from |-> f, fromSide |-> fs, to |-> t, toSide |-> ts, duration |-> d]

\* boxes.find(b => b.id === id) finds a box
HasBox(boxes, id) ==
    \E i \in DOMAIN boxes : boxes[i] = id

\* new Set(seq)
SetOf(seq) ==
    {seq[i] : i \in DOMAIN seq}

\* Box.address values: never filled in, blank, and two places.
Addresses == {"", " ", "A", "B"}

\* String.prototype.trim on an address
Trim(a) ==
    IF a = " " THEN "" ELSE a

\* Every id a box of a canvas can carry
BoxIds == 1..(MaxNodes + MaxBoxes)

\* The address of a box that has not been given one (handleDrop: address "")
NoAddresses == [id \in BoxIds |-> ""]

\* ------------------------------------------------------- the AI bridge
\* What the race between geminiMaps(prompt, system) and the 15 s timer can
\* settle with.  kind: "pending" (nothing settled yet), "error" (geminiMaps
\* rejected: connection, authentication, empty answer), "timeout" (the
\* timer rejected), "text" (geminiMaps resolved with a string).  For a text,
\* json says what the match and JSON.parse make of it: "nomatch" (no brace
\* pair in the text), "unparseable" (JSON.parse throws), "object"; for an
\* object, hasPath / hasConnections say that the field is there and is an
\* array, and path / connections are the arrays.
Outcome(k, j, hp, hc, p, c) ==
    [kind |-> k, json |-> j, hasPath |-> hp, hasConnections |-> hc,
     path |-> p, connections |-> c]

Pending == Outcome("pending", "nomatch", FALSE, FALSE, <<>>, <<>>)
TimeoutError == Outcome("timeout", "nomatch", FALSE, FALSE, <<>>, <<>>)
BridgeError == Outcome("error", "nomatch", FALSE, FALSE, <<>>, <<>>)

\* ------------------------------------------------------ getOptimizedRoute
\* ValidateResponse without the check of lines 105-110 (the ids of the path
\* are the ids of the boxes)
ValidateResponseNoIdCheck(boxes, startId, endId, o) ==
    /\ o.kind = "text"
    /\ o.json = "object"
    /\ o.hasPath /\ o.hasConnections
    /\ Len(o.path) = Len(boxes)
    /\ Len(o.path) > 0
    /\ o.path[1] = startId /\ o.path[Len(o.path)] = endId

\* Lines 83-110: the answer passes the match, the parse and the four checks.
ValidateResponse(boxes, startId, endId, o) ==
    /\ o.kind = "text"
    /\ o.json = "object"
    /\ o.hasPath /\ o.hasConnections
    /\ Len(o.path) = Len(boxes)
    \* path[0] of an empty array is undefined, which is no id
    /\ Len(o.path) > 0
    /\ o.path[1] = startId /\ o.path[Len(o.path)] = endId
    /\ Cardinality(SetOf(boxes)) = Cardinality(SetOf(o.path))
    /\ \A id \in SetOf(boxes) : id \in SetOf(o.path)

\* FallbackPath with a filter that forgets to leave the end box out
FallbackPathKeepsEnd(boxes, startId, endId) ==
    <<startId>>
      \o SelectSeq(boxes, LAMBDA b : b # startId)
      \o <<endId>>

\* Lines 118-119: [startId, ...others in the order supplied, endId]
FallbackPath(boxes, startId, endId) ==
    <<startId>>
      \o SelectSeq(boxes, LAMBDA b : b # startId /\ b # endId)
      \o <<endId>>

\* Lines 121-130: one connection per consecutive pair of the fallback path
FallbackConnections(path) ==
    [i \in 1..(Len(path) - 1) |->
        Conn(path[i], "bottom", path[i + 1], "top", Calculating)]

Route(p, c) ==
    [threw |-> FALSE, path |-> p, connections |-> c]

\* getOptimizedRoute without its catch block: a failed answer rejects
getOptimizedRouteRethrows(boxes, startId, endId, o) ==
    IF /\ HasBox(boxes, startId) /\ HasBox(boxes, endId)
       /\ ValidateResponse(boxes, startId, endId, o)
    THEN Route(o.path, o.connections)
    ELSE [threw |-> TRUE, path |-> <<>>, connections |-> <<>>]

\* getOptimizedRoute keeping the connections of an answer whose path it
\* has discarded
getOptimizedRouteKeepsConnections(boxes, startId, endId, o) ==
    IF /\ HasBox(boxes, startId) /\ HasBox(boxes, endId)
       /\ ValidateResponse(boxes, startId, endId, o)
    THEN Route(o.path, o.connections)
    ELSE IF o.kind = "text" /\ o.json = "object" /\ o.hasConnections
    THEN Route(FallbackPath(boxes, startId, endId), o.connections)
    ELSE Route(FallbackPath(boxes, startId, endId),
               FallbackConnections(FallbackPath(boxes, startId, endId)))

\* Lines 28-137: what getOptimizedRoute resolves with once the race has
\* settled with o.  The try block returns the parsed object itself (line
\* 112); every throw inside it lands in the catch block (line 114), which
\* builds the fallback route and returns it.  threw says that the promise
\* rejected instead, which the catch block leaves no way to.
getOptimizedRoute(boxes, startId, endId, o) ==
    IF /\ HasBox(boxes, startId) /\ HasBox(boxes, endId)
       /\ ValidateResponse(boxes, startId, endId, o)
    THEN Route(o.path, o.connections)
    ELSE Route(FallbackPath(boxes, startId, endId),
               FallbackConnections(FallbackPath(boxes, startId, endId)))

\* ------------------------------------------------------------------ POST
\* The JSON body of a request.  bodyOk: request.json() parses it; hasBoxes:
\* the boxes field is there.
Request(ok, hb, b, s, e) ==
    [bodyOk |-> ok, hasBoxes |-> hb, boxes |-> b,
     startBoxId |-> s, endBoxId |-> e]

NoRequest == Request(FALSE, FALSE, <<>>, NoId, NoId)

\* NextResponse.json(...): status is the HTTP status (0: no response yet).
Response(st, ok, p, c) ==
    [status |-> st, success |-> ok, path |-> p, connections |-> c]

NoResponse == Response(0, FALSE, <<>>, <<>>)

\* Lines 144-149: a required field is missing (falsy)
MissingFields(r) ==
    \/ ~r.hasBoxes
    \/ r.startBoxId = NoId
    \/ r.endBoxId = NoId

\* Lines 152-160: the start or the end id is the id of no box
BoxNotFound(r) ==
    \/ ~HasBox(r.boxes, r.startBoxId)
    \/ ~HasBox(r.boxes, r.endBoxId)

\* Lines 141-160: the response POST returns before it calls
\* getOptimizedRoute, NoResponse when it goes on to call it.
EarlyResponse(r) ==
    IF ~r.bodyOk THEN Response(500, FALSE, <<>>, <<>>)
    ELSE IF MissingFields(r) THEN Response(400, FALSE, <<>>, <<>>)
    ELSE IF BoxNotFound(r) THEN Response(400, FALSE, <<>>, <<>>)
    ELSE NoResponse

\* Lines 163-178: the response once getOptimizedRoute has settled
RouteResponse(route) ==
    IF route.threw THEN Response(500, FALSE, <<>>, <<>>)
    ELSE Response(200, TRUE, route.path, route.connections)

\* A race that lets a later settlement replace the first one
RaceSettleLastWins(current, o) ==
    o

\* Lines 77-80: Promise.race settles with the first of its promises that
\* settles; what settles later is ignored.
RaceSettle(current, o) ==
    IF current.kind = "pending" THEN o ELSE current

\* Resume with a catch block that asks the bridge again after a failure
ResumeRetries(q, r, o) ==
    IF ValidateResponse(r.boxes, r.startBoxId, r.endBoxId, o) \/ q >= 2
    THEN [pc |-> "done", queries |-> q,
          response |-> RouteResponse(
              getOptimizedRoute(r.boxes, r.startBoxId, r.endBoxId, o))]
    ELSE [pc |-> "awaiting", queries |-> q + 1, response |-> NoResponse]

\* Lines 82-136 and 163-170: where the operation stands once the awaited
\* race has settled with o, after q queries to the bridge.
Resume(q, r, o) ==
    [pc |-> "done", queries |-> q,
     response |-> RouteResponse(
         getOptimizedRoute(r.boxes, r.startBoxId, r.endBoxId, o))]

\* --------------------------------------------------------------- inputs
\* The box lists of the requests: n boxes, listed by ascending or by
\* descending id.
Asc(n) == [i \in 1..n |-> i]
Desc(n) == [i \in 1..n |-> n + 1 - i]
NodeLists == {Asc(n) : n \in 0..MaxNodes} \cup {Desc(n) : n \in 0..MaxNodes}

Requests ==
    {Request(TRUE, TRUE, b, s, e) :
        b \in NodeLists, s \in Ids \cup {NoId}, e \in Ids \cup {NoId}}
    \cup {Request(TRUE, FALSE, <<>>, s, e) : s \in Ids, e \in Ids}
    \cup {Request(FALSE, FALSE, <<>>, NoId, NoId)}

RemoveAt(p, i) == SubSeq(p, 1, i - 1) \o SubSeq(p, i + 1, Len(p))

\* Every ordering of the ids of a box list
Orderings(b) ==
    {p \in [1..Len(b) -> SetOf(b)] : \A i, j \in 1..Len(b) : p[i] = p[j] => i = j}

\* p with one defect: an id left out, an id replaced by another id of the
\* list or by a foreign id, an id added at the end
Defects(p) ==
    {RemoveAt(p, i) : i \in DOMAIN p}
    \cup {[p EXCEPT ![i] = v] : i \in DOMAIN p, v \in SetOf(p) \cup {ForeignId}}
    \cup {Append(p, v) : v \in SetOf(p) \cup {ForeignId}}

\* The path lists the AI may answer with for request r: every ordering of
\* the ids, and the orderings that start and end as asked (and the list as
\* supplied) with one defect.
AIPaths(r) ==
    Orderings(r.boxes)
    \cup UNION {Defects(p) :
            p \in {q \in Orderings(r.boxes) \cup {r.boxes} :
                     \/ q = r.boxes
                     \/ /\ Len(q) > 0
                        /\ q[1] = r.startBoxId /\ q[Len(q)] = r.endBoxId}}

Chain(path, d) ==
    [i \in 1..(Len(path) - 1) |->
        Conn(path[i], "bottom", path[i + 1], "top", d)]

\* The connection lists the AI may send along with a path: the chain over
\* the path with and without durations, no connection at all, the chain
\* over the path read backwards, a single connection from the first id
\* to itself, and one from the first id to an id that is no box.
AIConnections(path) ==
    {Chain(path, "15 mins"), Chain(path, NoDuration), <<>>,
     Chain([i \in DOMAIN path |-> path[Len(path) + 1 - i]], "15 mins")}
    \cup (IF Len(path) > 0
          THEN {<<Conn(path[1], "top", path[1], "bottom", "15 mins")>>,
                <<Conn(path[1], "bottom", ForeignId, "top", "15 mins")>>}
          ELSE {})

\* Everything the call of geminiMaps can settle with for request r
BridgeOutcomes(r) ==
    {BridgeError,
     Outcome("text", "nomatch", FALSE, FALSE, <<>>, <<>>),
     Outcome("text", "unparseable", FALSE, FALSE, <<>>, <<>>),
     Outcome("text", "object", FALSE, FALSE, <<>>, <<>>),
     Outcome("text", "object", FALSE, TRUE, <<>>,
             Chain(FallbackPath(r.boxes, r.startBoxId, r.endBoxId), "15 mins")),
     Outcome("text", "object", TRUE, FALSE,
             FallbackPath(r.boxes, r.startBoxId, r.endBoxId), <<>>)}
    \cup UNION {{Outcome("text", "object", TRUE, TRUE, p, c) :
                    c \in AIConnections(p)} : p \in AIPaths(r)}

\* ---------------------------------------------------------------- state
VARIABLES
    pc,        \* POST: "idle", "awaiting" (the race of lines 77-80), "done"
    request,   \* the body of the request POST is serving
    queries,   \* calls of geminiMaps made by the operation
    bridge,    \* the geminiMaps promise: "none", "inflight", "settled"
    timer,     \* the 15 s timer of line 74: "none", "armed", "fired"
    raced,     \* what Promise.race has settled with, Pending before
    answer,    \* what the geminiMaps promise settled with, Pending before
    first,     \* which promise settled first: "none", "bridge", "timer"
    response,  \* the response POST returned, NoResponse before
    \* the trip page
    canvasData,      \* useState canvasData: [boxes, connections]
    nextBox,         \* the id the next dropped box gets (box-${Date.now()})
    isOptimizeOpen,  \* useState isOptimizeOpen: the optimize dialog shows
    isOptimizing,    \* useState isOptimizing of the dialog
    flight,          \* the handleOptimizeRoute call awaiting its response
    \* the Canvas component
    connectingFrom,  \* useState connectingFrom: the point a link starts from
    lookups,         \* the handlers awaiting fetchTravelTime
    done,            \* the last lookup that completed, and what it returned
    released,        \* the last release of the button on an attachment point
    ops,             \* the operations the user has made on the canvas
    \* the export
    exported,        \* what the last exportToGoogleMaps did
    \* lib/maps.ts
    mcpClient,           \* let mcpClient: the client, NoClient for null
    mcpConnected,        \* let mcpConnected
    connectionAttempts,  \* let connectionAttempts
    clients,             \* what has become of connect() of each client
    calls,               \* the calls of ensureHttpClient, by query
    up,                  \* the maps bridge can be reached
    failedDown,          \* a connection attempt failed with the bridge down
    issued,              \* the queries made so far
    \* the text of the answer of the AI
    raw,                 \* the text geminiMaps resolved with
    parsed               \* what lines 83-88 made of it

mapsVars ==
    <<mcpClient, mcpConnected, connectionAttempts, clients, calls, up,
      failedDown, issued>>
textVars == <<raw, parsed>>
serverVars ==
    <<pc, request, queries, bridge, timer, raced, answer, first, response,
      mapsVars, textVars>>
canvasVars == <<connectingFrom, lookups, done, released>>
pageVars ==
    <<canvasData, nextBox, isOptimizeOpen, isOptimizing, flight,
      canvasVars, ops, exported>>
vars == <<serverVars, pageVars>>

\* canvasData: the boxes by id, in list order, the address of each box, and
\* the connections.  The boxes and connections state of the Canvas component
\* is the same data: every handler of the Canvas hands what it sets to the
\* page (notifyDataChange), and the Canvas takes over every new canvasData
\* of the page (the effect on initialData).
Canvas(b, c) == [boxes |-> b, connections |-> c, address |-> NoAddresses]

\* A call of handleOptimizeRoute between its fetch and the response: the
\* canvasData and the ids its closure holds.  closed and edited record that
\* the dialog was closed and that the graph was edited since the fetch.
Flight(a, cd, s, e, cl, ed) ==
    [active |-> a, canvasData |-> cd, startBoxId |-> s, endBoxId |-> e,
     closed |-> cl, edited |-> ed]

NoFlight == Flight(FALSE, Canvas(<<>>, <<>>), NoId, NoId, FALSE, FALSE)

\* connectingFrom: the attachment point a link was started from, or null
Point(id, s) == [boxId |-> id, side |-> s]
NoPoint == Point(NoId, "top")

\* A handler of the Canvas suspended at its await of fetchTravelTime.  kind
\* is the handler; canvasData is what its closure holds: the boxes and
\* addresses it notifies with (boxes in finishConnection, newBoxes in
\* updateBox) and the connection list it maps over (newConnections in
\* finishConnection, connections in updateBox); at is the place in that
\* list of the connection the lookup is for; rest are the places of the
\* connections updateBox has still to look up; id is the box updateBox
\* was called for; call tells the calls of a handler apart (the number
\* of operations made before it).
Lookup(k, cd, i, r, b, n) ==
    [kind |-> k, canvasData |-> cd, at |-> i, rest |-> r, id |-> b,
     call |-> n]

\* What is known of the last lookup that completed: the handler that
\* awaited it, the connection it was for and the box edited, whether
\* fetchTravelTime threw, and what it returned.
Done(k, f, t, b, th, v) ==
    [kind |-> k, from |-> f, to |-> t, id |-> b, threw |-> th, value |-> v]
NoDone == Done("none", NoId, NoId, NoId, FALSE, "")

\* What is known of the last call of finishConnection with a link started:
\* the box the link was started from, the box of the point the button was
\* released on, and whether a connection was appended.
Release(f, t, m) ==
    [from |-> f, to |-> t, made |-> m]
NoRelease == Release(NoId, NoId, FALSE)

\* What a call of exportToGoogleMaps did: threw, alerted (alert is the
\* message, "" for none) or opened the url (url lists its waypoints).
Export(ca, th, al, u) ==
    [called |-> ca, threw |-> th, alert |-> al, url |-> u]
NoExport == Export(FALSE, FALSE, "", <<>>)

\* ---------------------------------------------------------------------
\* lib/maps.ts: the client of the maps bridge
\* ---------------------------------------------------------------------

\* Line 36
MAX_CONNECTION_ATTEMPTS == 3

\* mcpClient is null
NoClient == 0

\* The clients that exist at a time: the one mcpClient holds and the one
\* each call awaits.  The id of a client no variable holds any more is
\* given to the next new Client.
ClientIds == 1..(MaxCalls + 1)

\* A call of ensureHttpClient for a query of geminiMaps.  pc: "idle" (no
\* query yet), "testing" (the await of line 42), "connecting" (line 70),
\* "backoff" (line 90), "returned", "failed" (it threw).  client: the
\* client whose listResources or connect the call awaits.  tries: the
\* connection attempts the call has made.  clean: the bridge could be
\* reached when the query was made and ever since.  got: what the call
\* returned: "null" or what had become of connect() of the client
\* returned.
Call(p, cl, t, c, g) ==
    [pc |-> p, client |-> cl, tries |-> t, clean |-> c, got |-> g]
NoCall == Call("idle", NoClient, 0, FALSE, "none")

InitMaps ==
    /\ mcpClient = NoClient
    /\ mcpConnected = FALSE
    /\ connectionAttempts = 0
    /\ clients = [id \in ClientIds |-> "none"]
    /\ calls = [c \in 1..MaxCalls |-> NoCall]
    /\ up = TRUE
    /\ failedDown = FALSE
    /\ issued = 0

\* ---------------------------------------------------------------------
\* route.ts: the JSON of the answer
\* ---------------------------------------------------------------------

\* What lines 83-88 have made of a text: whether the pattern matched,
\* whether JSON.parse took the match, and the match
Parsed(m, o, t) ==
    [matched |-> m, ok |-> o, text |-> t]
NotParsed == [matched |-> FALSE, ok |-> FALSE, text |-> <<>>]

InitText ==
    /\ raw = <<>>
    /\ parsed = NotParsed

Init ==
    /\ pc = "idle"
    /\ request = NoRequest
    /\ queries = 0
    /\ bridge = "none"
    /\ timer = "none"
    /\ raced = Pending
    /\ answer = Pending
    /\ first = "none"
    /\ response = NoResponse
    /\ canvasData = Canvas(<<>>, <<>>)
    /\ nextBox = 1
    /\ isOptimizeOpen = FALSE
    /\ isOptimizing = FALSE
    /\ flight = NoFlight
    /\ connectingFrom = NoPoint
    /\ lookups = {}
    /\ done = NoDone
    /\ released = NoRelease
    /\ ops = 0
    /\ exported = NoExport
    /\ InitMaps
    /\ InitText

\* POST, lines 139-163, up to the await of line 77: the input checks, then
\* getOptimizedRoute builds the prompt, arms the timer and calls geminiMaps.
\* (The throw of line 34 cannot happen here: POST has made the same check.)
PostRequest(r) ==
    /\ pc = "idle"
    /\ request' = r
    /\ IF EarlyResponse(r) # NoResponse
       THEN /\ pc' = "done"
            /\ response' = EarlyResponse(r)
            /\ UNCHANGED <<queries, bridge, timer>>
       ELSE /\ pc' = "awaiting"
            /\ queries' = queries + 1
            /\ bridge' = "inflight"
            /\ timer' = "armed"
            /\ UNCHANGED response
    /\ UNCHANGED <<raced, answer, first>>
    /\ UNCHANGED <<pageVars, mapsVars, textVars>>

\* One of the two raced promises settles with o: the race takes it if it is
\* the first, and the operation resumes with what the race settled with.
Settle(o) ==
    LET won == RaceSettle(raced, o)
        next == Resume(queries, request, won)
    IN  /\ raced' = won
        /\ IF won = raced
           THEN UNCHANGED <<pc, queries, response>>
           ELSE /\ pc' = next.pc
                /\ queries' = next.queries
                /\ response' = next.response

\* geminiMaps settles: it rejects, or resolves with a text
BridgeSettles(o) ==
    /\ bridge = "inflight"
    /\ bridge' = "settled"
    /\ answer' = o
    /\ first' = IF first = "none" THEN "bridge" ELSE first
    /\ Settle(o)
    /\ UNCHANGED <<request, timer>>
    /\ UNCHANGED <<pageVars, mapsVars, textVars>>

\* Line 74: the timer fires after 15 s, whether or not geminiMaps has
\* settled (it is never cleared)
TimerFires ==
    /\ timer = "armed"
    /\ timer' = "fired"
    /\ first' = IF first = "none" THEN "timer" ELSE first
    /\ Settle(TimeoutError)
    /\ UNCHANGED <<request, bridge, answer>>
    /\ UNCHANGED <<pageVars, mapsVars, textVars>>

\* A request reaches the operation
RequestArrives ==
    /\ pc = "idle"
    /\ \E r \in Requests : PostRequest(r)

\* The bridge settles the query of the request being served
BridgeAnswers ==
    /\ bridge = "inflight"
    /\ \E o \in BridgeOutcomes(request) : BridgeSettles(o)

Next ==
    \/ RequestArrives
    \/ BridgeAnswers
    \/ TimerFires

Spec == Init /\ [][Next]_vars

\* ------------------------------------------------------------ trip page
\* The response of the whole operation to request r when the race of
\* getOptimizedRoute settles with o (route.ts lines 139-179)
POST(r, o) ==
    IF EarlyResponse(r) # NoResponse THEN EarlyResponse(r)
    ELSE RouteResponse(getOptimizedRoute(r.boxes, r.startBoxId, r.endBoxId, o))

\* The graph was edited: an optimization in flight is marked
Edited(f) ==
    IF f.active THEN [f EXCEPT !.edited = TRUE] ELSE f

\* Canvas.handleDrop, type "box": a new box with a fresh id is appended
handleDrop ==
    /\ nextBox <= MaxBoxes
    /\ canvasData' = [canvasData EXCEPT !.boxes = Append(@, nextBox)]
    /\ nextBox' = nextBox + 1
    /\ flight' = Edited(flight)
    /\ UNCHANGED <<isOptimizeOpen, isOptimizing>>
    /\ UNCHANGED <<serverVars, canvasVars, exported>>

\* Canvas.deleteBox: the box goes, and every connection from or to it
deleteBox(id) ==
    /\ HasBox(canvasData.boxes, id)
    /\ canvasData' =
         [canvasData EXCEPT
            !.boxes = SelectSeq(@, LAMBDA b : b # id),
            !.connections = SelectSeq(@, LAMBDA c : c.from # id /\ c.to # id),
            !.address[id] = ""]
    /\ flight' = Edited(flight)
    /\ UNCHANGED <<nextBox, isOptimizeOpen, isOptimizing>>
    /\ UNCHANGED <<serverVars, canvasVars, exported>>

\* removeAllArrows (the button is disabled when there is no connection)
removeAllArrows ==
    /\ canvasData.connections # <<>>
    /\ canvasData' = [canvasData EXCEPT !.connections = <<>>]
    /\ flight' = Edited(flight)
    /\ UNCHANGED <<nextBox, isOptimizeOpen, isOptimizing>>
    /\ UNCHANGED <<serverVars, canvasVars, exported>>

\* OptimizeButton: the dialog opens
openOptimize ==
    /\ ~isOptimizeOpen
    /\ isOptimizeOpen' = TRUE
    /\ UNCHANGED <<canvasData, nextBox, isOptimizing, flight>>
    /\ UNCHANGED <<serverVars, canvasVars, exported>>

\* onClose by the backdrop, the cross or Cancel: the dialog closes; a
\* handleOptimize in flight goes on
closeOptimize ==
    /\ isOptimizeOpen
    /\ isOptimizeOpen' = FALSE
    /\ flight' = IF flight.active THEN [flight EXCEPT !.closed = TRUE] ELSE flight
    /\ UNCHANGED <<canvasData, nextBox, isOptimizing>>
    /\ UNCHANGED <<serverVars, canvasVars, exported>>

\* OptimizeModal.handleOptimize up to the fetch of handleOptimizeRoute: the
\* dialog shows its controls with 2 boxes or more, the button is enabled
\* with both ids chosen and no optimization running, and equal ids are
\* refused.  The ids are those chosen earlier in the dialog, of boxes that
\* may have been deleted since.
handleOptimize(startBoxId, endBoxId) ==
    /\ isOptimizeOpen /\ ~isOptimizing
    /\ Len(canvasData.boxes) >= 2
    /\ startBoxId # NoId /\ endBoxId # NoId
    /\ startBoxId # endBoxId
    /\ isOptimizing' = TRUE
    /\ flight' = Flight(TRUE, canvasData, startBoxId, endBoxId, FALSE, FALSE)
    /\ UNCHANGED <<canvasData, nextBox, isOptimizeOpen>>
    /\ UNCHANGED <<serverVars, canvasVars, exported>>

\* The request the call in flight has sent (handleOptimizeRoute, lines
\* 360-370)
FlightRequest ==
    Request(TRUE, TRUE, flight.canvasData.boxes,
            flight.startBoxId, flight.endBoxId)

\* handleOptimizeRoute from line 372 on, and the rest of handleOptimize,
\* with data the body of the response: on success the canvasData of the
\* closure, with the connections of the response, becomes the canvasData,
\* and the dialog closes; on an error the dialog alerts.
optimizeResponse(data) ==
    /\ flight.active
    /\ IF data.success
       THEN /\ canvasData' =
                 [flight.canvasData EXCEPT !.connections = data.connections]
            /\ isOptimizeOpen' = FALSE
       ELSE UNCHANGED <<canvasData, isOptimizeOpen>>
    /\ isOptimizing' = FALSE
    /\ flight' = NoFlight
    /\ UNCHANGED nextBox
    /\ UNCHANGED <<serverVars, canvasVars, exported>>

\* The user presses Optimize Route with two ids chosen among the boxes
\* dropped so far
clickOptimize ==
    \E s, e \in 1..MaxBoxes :
        s < nextBox /\ e < nextBox /\ handleOptimize(s, e)

\* The response to the fetch of the optimization in flight arrives: what
\* POST answers to the request for some outcome of the bridge or the timeout
ResponseArrives ==
    /\ flight.active
    /\ \E data \in {POST(FlightRequest, o) :
                      o \in BridgeOutcomes(FlightRequest) \cup {TimeoutError}} :
          optimizeResponse(data)

\* The page without a bound on the user's operations
NextPage ==
    \/ handleDrop /\ UNCHANGED ops
    \/ (\E id \in 1..MaxBoxes : deleteBox(id)) /\ UNCHANGED ops
    \/ removeAllArrows /\ UNCHANGED ops
    \/ openOptimize /\ UNCHANGED ops
    \/ closeOptimize /\ UNCHANGED ops
    \/ clickOptimize /\ UNCHANGED ops
    \/ ResponseArrives /\ UNCHANGED ops

SpecPage == Init /\ [][NextPage]_vars

\* --------------------------------------------------------------- canvas
\* What a call returns: it threw, or it returned value
Answer(v) == [threw |-> FALSE, value |-> v]
Threw == [threw |-> TRUE, value |-> FALSE]

\* What fetchTravelTime returns when it has no duration
Unknown == "Unknown"

\* The outcomes of the request of fetchTravelTime to /api/plan: fetch
\* rejects ("network"), the body of the response is not JSON ("notjson"),
\* the payload has ok false ("notok") or no text ("notext"), the text has
\* no match for the duration pattern ("nomatch"), the text has one ("time")
LookupOutcomes == {"network", "notjson", "notok", "notext", "nomatch", "time"}

\* The duration the bridge finds from one address to another (the match
\* of line 435 in its text)
TravelTime(fromAddress, toAddress) ==
    CASE fromAddress = "A" /\ toAddress = "B" -> "10 mins"
      [] fromAddress = "B" /\ toAddress = "A" -> "20 mins"
      [] OTHER -> "1 min"

\* fetchTravelTime without its try and catch
fetchTravelTimeNoCatch(fromAddress, toAddress, o) ==
    IF o \in {"network", "notjson"} THEN [threw |-> TRUE, value |-> ""]
    ELSE IF o = "time" THEN Answer(TravelTime(fromAddress, toAddress))
    ELSE Answer(Unknown)

\* Lines 419-443: what fetchTravelTime resolves with when its request ends
\* with o
fetchTravelTime(fromAddress, toAddress, o) ==
    IF o = "time" THEN Answer(TravelTime(fromAddress, toAddress))
    ELSE Answer(Unknown)

\* box && box.address && box.address.trim() !== '' for the box with this id
HasAddress(cd, id) ==
    HasBox(cd.boxes, id) /\ Trim(cd.address[id]) # ""

\* Line 824
startConnection(boxId, side) ==
    /\ HasBox(canvasData.boxes, boxId)
    /\ connectingFrom' = Point(boxId, side)
    /\ UNCHANGED <<canvasData, nextBox, isOptimizeOpen, isOptimizing, flight>>
    /\ UNCHANGED <<lookups, done, released, exported>>
    /\ UNCHANGED serverVars

\* existingConnection looking for a connection the same way round only
existingConnectionOneWay(connections, a, b) ==
    \E i \in DOMAIN connections :
        connections[i].from = a /\ connections[i].to = b

\* Lines 834-837: a connection joins the two boxes already, either way
existingConnection(connections, a, b) ==
    \E i \in DOMAIN connections :
        \/ connections[i].from = a /\ connections[i].to = b
        \/ connections[i].from = b /\ connections[i].to = a

\* Lines 828-877, up to the await of line 859 or, without it, to the end.
\* Nothing is linked when no link was started, when it was started from
\* this box, or when the two boxes are joined already.  Otherwise the new
\* connection is appended with the pending marker; with both addresses
\* there the handler awaits fetchTravelTime, else it takes the marker off.
finishConnection(boxId, side) ==
    /\ HasBox(canvasData.boxes, boxId)
    /\ connectingFrom # NoPoint
    /\ LET newConnection ==
             Conn(connectingFrom.boxId, connectingFrom.side, boxId, side,
                  Calculating)
           newConnections == Append(canvasData.connections, newConnection)
       IN  IF \/ connectingFrom.boxId = boxId
              \/ existingConnection(canvasData.connections,
                                    connectingFrom.boxId, boxId)
           THEN /\ connectingFrom' = NoPoint
                /\ UNCHANGED <<canvasData, lookups, flight>>
           ELSE /\ flight' = Edited(flight)
                /\ IF /\ HasAddress(canvasData, connectingFrom.boxId)
                      /\ HasAddress(canvasData, boxId)
                   THEN /\ Cardinality(lookups) < MaxLookups
                        /\ canvasData' =
                             [canvasData EXCEPT !.connections = newConnections]
                        /\ lookups' = lookups \cup
                             {Lookup("finishConnection",
                                     [canvasData EXCEPT
                                        !.connections = newConnections],
                                     Len(newConnections), <<>>, NoId, ops)}
                        /\ UNCHANGED connectingFrom
                   ELSE /\ canvasData' =
                             [canvasData EXCEPT !.connections =
                                [newConnections EXCEPT
                                   ![Len(newConnections)].duration = NoDuration]]
                        /\ connectingFrom' = NoPoint
                        /\ UNCHANGED lookups
    /\ UNCHANGED <<nextBox, isOptimizeOpen, isOptimizing, done, exported>>
    /\ UNCHANGED serverVars

\* Lines 889-891: the places in the list of the connections from or to the
\* box that have no duration, or the duration Unknown
connectionsToUpdate(connections, id) ==
    SelectSeq([i \in DOMAIN connections |-> i],
              LAMBDA i : /\ connections[i].from = id \/ connections[i].to = id
                         /\ connections[i].duration \in {NoDuration, Unknown})

\* Lines 894-898: of these, the ones both boxes of which have an address
toLookUp(cd, places) ==
    SelectSeq(places,
              LAMBDA i : /\ HasAddress(cd, cd.connections[i].from)
                         /\ HasAddress(cd, cd.connections[i].to))

\* Lines 880-917 for the field address, up to the first await of line 906
\* or, without it, to the end: the box gets the address, and with an
\* address that is not blank the handler looks up the connections of
\* toLookUp one after the other.  (The marker of line 904 is set in the
\* Canvas and not handed to the page; the effect on initialData, run for
\* the canvasData of line 885, puts the connections of the page back.)
updateBox(id, value) ==
    /\ HasBox(canvasData.boxes, id)
    /\ value # canvasData.address[id]
    /\ LET newBoxes == [canvasData EXCEPT !.address[id] = value]
           places == toLookUp(newBoxes,
                              connectionsToUpdate(canvasData.connections, id))
       IN  /\ canvasData' = newBoxes
           /\ IF Trim(value) # "" /\ places # <<>>
              THEN /\ Cardinality(lookups) < MaxLookups
                   /\ lookups' = lookups \cup
                        {Lookup("updateBox", newBoxes, Head(places),
                                Tail(places), id, ops)}
              ELSE UNCHANGED lookups
    /\ flight' = Edited(flight)
    /\ UNCHANGED <<nextBox, isOptimizeOpen, isOptimizing>>
    /\ UNCHANGED <<connectingFrom, done, released, exported>>
    /\ UNCHANGED serverVars

\* Lines 862-864: newConnections with the travel time on the new connection
updatedConnections(l, travelTime) ==
    [l.canvasData.connections EXCEPT ![l.at].duration = travelTime]

\* Lines 901-911: connections with the marker on conn (tempConnections),
\* then with the travel time on every connection from conn.from to conn.to
finalConnections(l, travelTime) ==
    LET conn == l.canvasData.connections[l.at]
        tempConnections ==
            [l.canvasData.connections EXCEPT ![l.at].duration = Calculating]
    IN  [i \in DOMAIN tempConnections |->
            IF /\ tempConnections[i].from = conn.from
               /\ tempConnections[i].to = conn.to
            THEN [tempConnections[i] EXCEPT !.duration = travelTime]
            ELSE tempConnections[i]]

\* fetchTravelTime has resolved with travelTime and the handler suspended
\* as l runs on from its await.  finishConnection (lines 861-866, 876) sets and notifies the
\* connections and boxes of its closure and clears connectingFrom;
\* updateBox (lines 908-915) sets and notifies those of its own and awaits
\* the lookup of its next connection.  Were fetchTravelTime to throw, the
\* handler would end at its await.
lookupCompletes(l, travelTime) ==
    LET conn == l.canvasData.connections[l.at]
    IN  /\ done' = Done(l.kind, conn.from, conn.to, l.id,
                        travelTime.threw, travelTime.value)
        /\ IF travelTime.threw
           THEN /\ lookups' = lookups \ {l}
                /\ UNCHANGED <<canvasData, connectingFrom, flight>>
           ELSE IF l.kind = "finishConnection"
           THEN /\ canvasData' =
                     [l.canvasData EXCEPT
                        !.connections = updatedConnections(l, travelTime.value)]
                /\ connectingFrom' = NoPoint
                /\ lookups' = lookups \ {l}
                /\ flight' = Edited(flight)
           ELSE /\ canvasData' =
                     [l.canvasData EXCEPT
                        !.connections = finalConnections(l, travelTime.value)]
                /\ lookups' = (lookups \ {l}) \cup
                     (IF l.rest = <<>> THEN {}
                      ELSE {[l EXCEPT !.at = Head(l.rest),
                                      !.rest = Tail(l.rest)]})
                /\ flight' = Edited(flight)
                /\ UNCHANGED connectingFrom
        /\ UNCHANGED <<nextBox, isOptimizeOpen, isOptimizing, released, exported>>
        /\ UNCHANGED serverVars

\* The user makes one more of the MaxOps operations
Spend ==
    /\ ops < MaxOps
    /\ ops' = ops + 1

\* The user presses an attachment point of a box and releases the button
\* on one.  The handlers only store the sides of the points: the links of
\* the model go from a bottom point to a top point.
pressPoint ==
    /\ ops < MaxOps
    /\ \E id \in 1..MaxBoxes : startConnection(id, "bottom")
    /\ UNCHANGED ops

releasePoint ==
    /\ connectingFrom # NoPoint
    /\ \E id \in 1..MaxBoxes : finishConnection(id, "top")
    /\ Spend
    /\ UNCHANGED released

\* The same, with the release kept in released
linkPoints ==
    /\ connectingFrom # NoPoint
    /\ \E id \in 1..MaxBoxes :
          /\ finishConnection(id, "top")
          /\ released' =
                Release(connectingFrom.boxId, id,
                        Len(canvasData'.connections)
                          > Len(canvasData.connections))
    /\ Spend

\* The user types an address into a box
typeAddress ==
    /\ ops < MaxOps
    /\ \E id \in 1..MaxBoxes : \E value \in Addresses : updateBox(id, value)
    /\ Spend

\* The user drops a box, deletes one, removes all arrows
dropBox ==
    handleDrop /\ Spend

removeBox ==
    /\ ops < MaxOps
    /\ \E id \in 1..MaxBoxes : deleteBox(id)
    /\ Spend

clearArrows ==
    removeAllArrows /\ Spend

\* The request of a lookup in flight ends
LookupReturns ==
    /\ lookups # {}
    /\ \E l \in lookups :
          LET conn == l.canvasData.connections[l.at]
          IN  \E travelTime \in
                   {fetchTravelTime(l.canvasData.address[conn.from],
                                    l.canvasData.address[conn.to], o) :
                      o \in LookupOutcomes} :
                 lookupCompletes(l, travelTime)
    /\ UNCHANGED ops

\* The canvases of the trips that are opened (the page takes its canvasData
\* from the saved trip, lines 32-49): n boxes in id order; every box with
\* an address, every box but the first, or none; no connection, the
\* connections from the first box to each other box, or the chain of the
\* boxes.  A connection whose boxes have addresses has its travel time or,
\* its lookup having failed, Unknown; a connection made while one of its
\* boxes had no address has no duration.
Placed(n) ==
    [id \in BoxIds |->
        IF id > n THEN "" ELSE IF id % 2 = 1 THEN "A" ELSE "B"]

PlacedButFirst(n) ==
    [Placed(n) EXCEPT ![1] = ""]

Star(n, d) ==
    [i \in 1..(n - 1) |-> Conn(1, "bottom", i + 1, "top", d)]

TimedChain(n, a) ==
    [i \in 1..(n - 1) |->
        Conn(i, "bottom", i + 1, "top", TravelTime(a[i], a[i + 1]))]

SavedTrip(n, a, c) ==
    [boxes |-> Asc(n), connections |-> c, address |-> a]

SavedTrips ==
    UNION {{SavedTrip(n, NoAddresses, <<>>),
            SavedTrip(n, NoAddresses, Star(n, NoDuration)),
            SavedTrip(n, PlacedButFirst(n), <<>>),
            SavedTrip(n, PlacedButFirst(n), Star(n, NoDuration)),
            SavedTrip(n, Placed(n), <<>>),
            SavedTrip(n, Placed(n), Star(n, Unknown)),
            SavedTrip(n, Placed(n), TimedChain(n, Placed(n)))} :
             n \in 0..MaxBoxes}

InitCanvas ==
    /\ pc = "idle"
    /\ request = NoRequest
    /\ queries = 0
    /\ bridge = "none"
    /\ timer = "none"
    /\ raced = Pending
    /\ answer = Pending
    /\ first = "none"
    /\ response = NoResponse
    /\ canvasData \in SavedTrips
    /\ nextBox = Len(canvasData.boxes) + 1
    /\ isOptimizeOpen = FALSE
    /\ isOptimizing = FALSE
    /\ flight = NoFlight
    /\ connectingFrom = NoPoint
    /\ lookups = {}
    /\ done = NoDone
    /\ released = NoRelease
    /\ ops = 0
    /\ exported = NoExport
    /\ InitMaps
    /\ InitText

NextCanvas ==
    \/ dropBox
    \/ removeBox
    \/ clearArrows
    \/ pressPoint
    \/ releasePoint
    \/ typeAddress
    \/ LookupReturns

SpecCanvas == InitCanvas /\ [][NextCanvas]_vars

\* Linking on the canvas of a saved trip, between deletions, clearings and
\* the completions of the lookups
NextLink ==
    \/ pressPoint
    \/ linkPoints
    \/ removeBox
    \/ clearArrows
    \/ LookupReturns

SpecLink == InitCanvas /\ [][NextLink]_vars

\* ------------------------------------------------------------- export
\* adjacencyList[id] once the connections.forEach of lines 225-228 (and
\* 264-267) is over: for each connection in list order, to is pushed on
\* the list of from and from on the list of to.
RECURSIVE Neighbors(_, _)
Neighbors(connections, id) ==
    IF connections = <<>> THEN <<>>
    ELSE LET conn == Head(connections)
         IN  (IF conn.from = id THEN <<conn.to>> ELSE <<>>)
               \o (IF conn.to = id THEN <<conn.from>> ELSE <<>>)
               \o Neighbors(Tail(connections), id)

\* adjacencyList[conn.from] or adjacencyList[conn.to] is undefined for some
\* connection: its push throws a TypeError
Dangling(cd) ==
    \E i \in DOMAIN cd.connections :
        \/ ~HasBox(cd.boxes, cd.connections[i].from)
        \/ ~HasBox(cd.boxes, cd.connections[i].to)

\* A walk that takes every id named by a connection for reached
VisitAllNamed(connections, visited) ==
    visited \cup UNION {{connections[i].from, connections[i].to} :
                           i \in DOMAIN connections}

\* Lines 231-244: the ids the walk over the stack has visited when the
\* stack is empty, started with visited
RECURSIVE Visit(_, _)
Visit(connections, visited) ==
    LET more == {n \in UNION {SetOf(Neighbors(connections, v)) : v \in visited} :
                    n \notin visited}
    IN  IF more = {} THEN visited ELSE Visit(connections, visited \cup more)

\* Lines 209-247
areAllBoxesConnected(cd) ==
    IF Len(cd.boxes) = 0 THEN Answer(FALSE)
    ELSE IF Len(cd.boxes) = 1 THEN Answer(TRUE)
    ELSE IF Len(cd.connections) = 0 THEN Answer(FALSE)
    ELSE IF Dangling(cd) THEN Threw
    ELSE Answer(Cardinality(Visit(cd.connections, {cd.boxes[1]}))
                  = Len(cd.boxes))

\* A linearizer that starts at the first box of the list, endpoint or not
StartBoxFirst(cd) ==
    cd.boxes[1]

\* Lines 270-273: the first box of the list with exactly one entry in its
\* adjacency list, the first box when there is none
StartBox(cd) ==
    LET endpoints ==
          SelectSeq(cd.boxes, LAMBDA b : Len(Neighbors(cd.connections, b)) = 1)
    IN  IF Len(endpoints) > 0 THEN endpoints[1] ELSE cd.boxes[1]

\* Lines 280-293: from the last box of route, go on to its first neighbour
\* not yet visited, until every box is on the route or there is none
RECURSIVE Traverse(_, _)
Traverse(cd, route) ==
    IF Len(route) >= Len(cd.boxes) THEN route
    ELSE LET neighbors ==
               SelectSeq(Neighbors(cd.connections, route[Len(route)]),
                         LAMBDA n : n \notin SetOf(route))
         IN  IF neighbors = <<>> THEN route
             ELSE Traverse(cd, Append(route, neighbors[1]))

\* Lines 249-296
buildOrderedRoute(cd) ==
    IF Len(cd.boxes) = 0 THEN Answer(<<>>)
    ELSE IF Len(cd.boxes) = 1 THEN Answer(<<cd.boxes[1]>>)
    ELSE IF Dangling(cd) THEN [threw |-> TRUE, value |-> <<>>]
    ELSE Answer(Traverse(cd, <<StartBox(cd)>>))

\* The title of a box (handleDrop: "New Location")
Title == "New Location"

\* Lines 298-310: the waypoints of the url, one per box of the route: its
\* address, its title when the address is blank (<<>> stands for '')
generateGoogleMapsUrl(cd, route) ==
    [i \in DOMAIN route |->
        [box |-> route[i],
         text |-> IF Trim(cd.address[route[i]]) # ""
                  THEN cd.address[route[i]] ELSE Title]]

ConnectFirst == "Please connect all locations with arrows before exporting"
NoLocations == "No locations found to export."
NoUrl == "Unable to generate Google Maps URL."

\* An export that does not ask areAllBoxesConnected first
exportToGoogleMapsUnchecked(cd) ==
    LET route == buildOrderedRoute(cd)
    IN  IF route.threw THEN Export(TRUE, TRUE, "", <<>>)
        ELSE IF Len(route.value) = 0 THEN Export(TRUE, FALSE, NoLocations, <<>>)
        ELSE Export(TRUE, FALSE, "", generateGoogleMapsUrl(cd, route.value))

\* Lines 312-330
exportToGoogleMaps(cd) ==
    LET connected == areAllBoxesConnected(cd)
        route == buildOrderedRoute(cd)
        googleMapsUrl == generateGoogleMapsUrl(cd, route.value)
    IN  IF connected.threw THEN Export(TRUE, TRUE, "", <<>>)
        ELSE IF ~connected.value THEN Export(TRUE, FALSE, ConnectFirst, <<>>)
        ELSE IF route.threw THEN Export(TRUE, TRUE, "", <<>>)
        ELSE IF Len(route.value) = 0 THEN Export(TRUE, FALSE, NoLocations, <<>>)
        ELSE IF googleMapsUrl # <<>> THEN Export(TRUE, FALSE, "", googleMapsUrl)
        ELSE Export(TRUE, FALSE, NoUrl, <<>>)

\* exportToGoogleMaps is applied to the graph of the canvas.  (On the page
\* its button, lines 536-540, is disabled while there is no box or
\* areAllBoxesConnected is false: a click only ever runs it from line 318.)
applyExport ==
    /\ exported' = exportToGoogleMaps(canvasData)
    /\ UNCHANGED <<canvasData, nextBox, isOptimizeOpen, isOptimizing, flight>>
    /\ UNCHANGED <<serverVars, canvasVars, ops>>

\* The graphs on the canvas of a trip that is opened (the page takes its
\* canvasData from the saved trip, lines 32-49).  The boxes are n boxes in
\* id order; odd boxes have address "A", even ones have none.
Legs(ids) ==
    {Conn(f, "bottom", t, "top", NoDuration) : f \in ids, t \in ids}

\* Lists of up to MaxNodes - 1 connections between different boxes, no two
\* of them from the same box to the same box
PlainLegLists(n) ==
    UNION {{c \in [1..k -> Legs(1..n)] :
               /\ \A i \in 1..k : c[i].from # c[i].to
               /\ \A i, j \in 1..k : c[i] = c[j] => i = j} :
             k \in 0..(MaxNodes - 1)}

\* Lists of up to 2 connections of any kind: connections from a box to
\* itself, twice the same connection, connections from or to an id of no
\* box (what an applied optimization result may hold, its connections
\* being those the AI sent)
OddLegLists(n) ==
    UNION {[1..k -> Legs((1..n) \cup {ForeignId})] : k \in 1..2}

OddAddresses == [id \in BoxIds |-> IF id % 2 = 1 THEN "A" ELSE ""]

Graph(n, c) ==
    [boxes |-> Asc(n), connections |-> c, address |-> OddAddresses]

InitGraph ==
    /\ pc = "idle"
    /\ request = NoRequest
    /\ queries = 0
    /\ bridge = "none"
    /\ timer = "none"
    /\ raced = Pending
    /\ answer = Pending
    /\ first = "none"
    /\ response = NoResponse
    /\ \E n \in 0..MaxNodes :
         \/ \E c \in PlainLegLists(n) : canvasData = Graph(n, c)
         \/ \E c \in OddLegLists(n) : canvasData = Graph(n, c)
    /\ nextBox = Len(canvasData.boxes) + 1
    /\ isOptimizeOpen = FALSE
    /\ isOptimizing = FALSE
    /\ flight = NoFlight
    /\ connectingFrom = NoPoint
    /\ lookups = {}
    /\ done = NoDone
    /\ released = NoRelease
    /\ ops = 0
    /\ exported = NoExport
    /\ InitMaps
    /\ InitText

NextGraph ==
    applyExport

SpecGraph == InitGraph /\ [][NextGraph]_vars

\* ================================================================ claims
\* What the claims speak of, stated apart from the operators above.

\* POST has returned a route
Returned == pc = "done" /\ response.status = 200

\* path names every id of the box list exactly once and nothing else
VisitsEachOnce(path, b) ==
    /\ \A id \in SetOf(b) : Cardinality({j \in DOMAIN path : path[j] = id}) = 1
    /\ \A j \in DOMAIN path : path[j] \in SetOf(b)

DistinctIds(b) ==
    \A i, j \in DOMAIN b : b[i] = b[j] => i = j

\* The request satisfies the caller contract of the spec
MeetsContract(r) ==
    /\ r.bodyOk /\ r.hasBoxes
    /\ Len(r.boxes) >= 2
    /\ DistinctIds(r.boxes)
    /\ r.startBoxId \in SetOf(r.boxes) /\ r.endBoxId \in SetOf(r.boxes)
    /\ r.startBoxId # r.endBoxId

\* The ids of b other than s and e, in the order of b
RECURSIVE OthersInOrder(_, _, _)
OthersInOrder(b, s, e) ==
    IF b = <<>> THEN <<>>
    ELSE IF Head(b) = s \/ Head(b) = e THEN OthersInOrder(Tail(b), s, e)
    ELSE <<Head(b)>> \o OthersInOrder(Tail(b), s, e)

\* The route the spec's fallback planner gives for request r
PlannerPath(r) ==
    <<r.startBoxId>> \o OthersInOrder(r.boxes, r.startBoxId, r.endBoxId)
                     \o <<r.endBoxId>>

\* c is the chain over path, each leg bottom to top, with duration d or, for
\* d = "any", with any duration
IsChainOver(c, path, d) ==
    /\ Len(c) = Len(path) - 1
    /\ \A i \in DOMAIN c :
        /\ c[i].from = path[i] /\ c[i].fromSide = "bottom"
        /\ c[i].to = path[i + 1] /\ c[i].toSide = "top"
        /\ d # "any" => c[i].duration = d

\* The answer o has what the spec lets the validator accept for request r
Acceptable(r, o) ==
    /\ o.kind = "text" /\ o.json = "object"
    /\ o.hasPath /\ o.hasConnections
    /\ Len(o.path) = Len(r.boxes)
    /\ Len(o.path) > 0
    /\ o.path[1] = r.startBoxId /\ o.path[Len(o.path)] = r.endBoxId
    /\ SetOf(o.path) = SetOf(r.boxes)

\* C1: for a request of at least 2 boxes with distinct ids whose start and
\* end ids are ids of boxes and differ, the operation returns a path that
\* holds every box id exactly once, starts at the start id and ends at the
\* end id, whatever the bridge did.
C1_PermutationFromStartToEnd ==
    (pc = "done" /\ MeetsContract(request)) =>
        /\ response.status = 200 /\ response.success
        /\ Len(response.path) = Len(request.boxes)
        /\ VisitsEachOnce(response.path, request.boxes)
        /\ response.path[1] = request.startBoxId
        /\ response.path[Len(response.path)] = request.endBoxId

\* C1 witness: a 4-box request answered with the AI's own ordering, which is
\* not the planner's
C1_Witness ==
    /\ pc = "done" /\ MeetsContract(request)
    /\ Len(request.boxes) = 4
    /\ first = "bridge"
    /\ response.path = answer.path
    /\ response.path # PlannerPath(request)

\* C2 (as claimed): every route the operation returns, for any request that
\* passes its input checks, has as many ids as there are boxes, starts at
\* the start id, ends at the end id and holds each box id exactly once.
C2_EveryReturnedRouteIsValid ==
    Returned =>
        /\ Len(response.path) = Len(request.boxes)
        /\ response.path[1] = request.startBoxId
        /\ response.path[Len(response.path)] = request.endBoxId
        /\ VisitsEachOnce(response.path, request.boxes)

\* C3: with the boxes present and both ids ids of boxes, no outcome of the
\* bridge makes the operation answer with an error: once the race has
\* settled the response is a success that carries a route.
C3_NoErrorFromBridge ==
    (request.bodyOk /\ request.hasBoxes
       /\ HasBox(request.boxes, request.startBoxId)
       /\ HasBox(request.boxes, request.endBoxId)) =>
        /\ response.status \in {0, 200}
        /\ first # "none" =>
            /\ pc = "done"
            /\ response.status = 200 /\ response.success
            /\ Len(response.path) > 0

\* C3 witness: the bridge rejected and the operation answered with a route
C3_Witness ==
    /\ pc = "done"
    /\ first = "bridge" /\ answer.kind = "error"
    /\ response.status = 200 /\ response.success
    /\ Len(response.path) >= 2

\* A request that breaks the input contract of the spec
BreaksContract(r) ==
    \/ ~r.hasBoxes
    \/ r.startBoxId = NoId \/ r.endBoxId = NoId
    \/ ~HasBox(r.boxes, r.startBoxId) \/ ~HasBox(r.boxes, r.endBoxId)
    \/ Len(r.boxes) < 2

\* C4 (as claimed): a request that breaks the input contract (boxes, start
\* or end id missing, start or end id of no box, fewer than 2 boxes) is
\* rejected with a usage error before any query goes to the bridge, and no
\* route is produced.
C4_ContractViolationRejected ==
    (pc # "idle" /\ request.bodyOk /\ BreaksContract(request)) =>
        /\ pc = "done"
        /\ response.status = 400 /\ ~response.success
        /\ response.path = <<>>
        /\ queries = 0

\* C5: the returned path and connections are both the ones of the AI's
\* answer, and then the answer has a path list and a connections list and
\* its path has the length, the ends and the ids asked for, or both are the
\* planner's; never one of each.
C5_AcceptedOrDiscardedWhole ==
    Returned =>
        \/ /\ first = "bridge"
           /\ Acceptable(request, answer)
           /\ response.path = answer.path
           /\ response.connections = answer.connections
        \/ /\ response.path = PlannerPath(request)
           /\ IsChainOver(response.connections, response.path, Calculating)

\* C5 witness: an answer with a well-formed connections list and a path with
\* a repeated id was discarded whole
C5_Witness ==
    /\ Returned /\ MeetsContract(request)
    /\ first = "bridge"
    /\ answer.kind = "text" /\ answer.json = "object"
    /\ answer.hasPath /\ answer.hasConnections
    /\ Len(answer.path) = Len(request.boxes)
    /\ Len(answer.connections) = Len(request.boxes) - 1
    /\ ~Acceptable(request, answer)
    /\ response.path # answer.path
    /\ response.connections # answer.connections

\* The planner ran: a route was returned and the race had not settled with
\* an acceptable answer
PlannerRan ==
    Returned /\ ~(first = "bridge" /\ Acceptable(request, answer))

\* C6: run on n >= 2 boxes with distinct start and end, the fallback
\* planner returns [start], then every other id in the order the boxes were
\* supplied, then [end], with exactly n-1 connections, the i-th from path[i]
\* (bottom) to path[i+1] (top) with the pending marker; it makes no call
\* of its own to the bridge and it does not fail.
C6_FallbackPlanner ==
    (PlannerRan /\ MeetsContract(request)) =>
        LET path == response.path
            n == Len(request.boxes)
        IN  /\ response.success
            /\ Len(path) = n
            /\ path[1] = request.startBoxId
            /\ path[n] = request.endBoxId
            /\ \A i \in 2..(n - 1) :
                 /\ path[i] \in SetOf(request.boxes)
                 /\ path[i] # request.startBoxId /\ path[i] # request.endBoxId
            /\ \A i, j \in 2..(n - 1) :
                 i < j =>
                   \E k, l \in DOMAIN request.boxes :
                     /\ k < l
                     /\ request.boxes[k] = path[i]
                     /\ request.boxes[l] = path[j]
            /\ Len(response.connections) = n - 1
            /\ \A i \in 1..(n - 1) :
                 response.connections[i] =
                   Conn(path[i], "bottom", path[i + 1], "top", Calculating)
            /\ queries = 1

\* C6 witness: the planner ran on 4 boxes listed in descending order, and on
\* 2 boxes, after the bridge failed
C6_Witness ==
    /\ PlannerRan /\ MeetsContract(request)
    /\ request.boxes = Desc(4)
    /\ request.startBoxId = 3 /\ request.endBoxId = 2
    /\ response.path = <<3, 4, 1, 2>>
    /\ Len(response.connections) = 3

\* C7 (as claimed): in every returned result, of the AI or of the planner,
\* there are len(path)-1 connections and the i-th goes from path[i], by the
\* bottom side, to path[i+1], by the top side.  Stated for the requests
\* that meet the caller contract.
C7_ConnectionsMatchPath ==
    (Returned /\ MeetsContract(request)) =>
        IsChainOver(response.connections, response.path, "any")

\* C8: one operation queries the bridge at most once; once the race has
\* settled, by an error, a timeout, a parse failure or a failed check, the
\* operation is over and no second query is out.
C8_SingleQuery ==
    /\ queries <= 1
    /\ first # "none" => (pc = "done" /\ queries = 1)

\* C8 witness: the answer failed a check of its path and the operation
\* ended with the one query it had made
C8_Witness ==
    /\ pc = "done" /\ queries = 1
    /\ first = "bridge"
    /\ answer.kind = "text" /\ answer.json = "object"
    /\ answer.hasPath /\ answer.hasConnections
    /\ ~Acceptable(request, answer)
    /\ response.success

\* C9: when the timer expires before the bridge has answered, the operation
\* returns the planner's route, and an answer of the bridge that comes
\* later, be it a valid one, leaves the returned result as it is.
C9_TimeoutGivesFallback ==
    first = "timer" =>
        /\ pc = "done"
        /\ response.status = 200 /\ response.success
        /\ response.path = PlannerPath(request)
        /\ IsChainOver(response.connections, response.path, Calculating)

\* C9 witness: after the timeout the bridge answered with an acceptable
\* route other than the planner's
C9_Witness ==
    /\ first = "timer" /\ timer = "fired"
    /\ bridge = "settled"
    /\ Acceptable(request, answer)
    /\ answer.path # PlannerPath(request)
    /\ response.path = PlannerPath(request)

\* C10 (as claimed): when the user has closed the optimize dialog or edited
\* the graph while an optimization was in flight, the result that arrives
\* afterwards is discarded: it neither replaces the connections nor puts
\* the box list back to what it was when the request was sent.
C10_LateResultDiscarded ==
    [][(flight.active /\ ~flight'.active /\ (flight.closed \/ flight.edited))
         => canvasData' = canvasData]_vars

\* ------------------------------------------------ claims on the export
\* Every connection of the graph joins two boxes of the node list
WellFormed(cd) ==
    \A i \in DOMAIN cd.connections :
        /\ cd.connections[i].from \in SetOf(cd.boxes)
        /\ cd.connections[i].to \in SetOf(cd.boxes)

\* a and b are joined by a connection, in either direction
Joined(cd, a, b) ==
    \E i \in DOMAIN cd.connections :
        \/ cd.connections[i].from = a /\ cd.connections[i].to = b
        \/ cd.connections[i].from = b /\ cd.connections[i].to = a

\* The boxes that can be reached from a box of S over the connections
\* taken as undirected
RECURSIVE Component(_, _)
Component(cd, S) ==
    LET T == S \cup {b \in SetOf(cd.boxes) : \E a \in S : Joined(cd, a, b)}
    IN  IF T = S THEN S ELSE Component(cd, T)

\* Every box can be reached from every other box: from the first box of
\* the list every box is reached (the connections being taken as
\* undirected, each box then reaches each other by way of the first)
ConnectedGraph(cd) ==
    cd.boxes # <<>> => Component(cd, {cd.boxes[1]}) = SetOf(cd.boxes)

\* The number of connections incident to box id
Incident(cd, id) ==
    Cardinality({i \in DOMAIN cd.connections :
                    cd.connections[i].from = id \/ cd.connections[i].to = id})

\* The graph is one connected simple path: connected, no box with more
\* than two incident connections, and no cycle (a connected graph is free
\* of cycles when it has one connection less than it has boxes)
SimplePath(cd) ==
    /\ Len(cd.boxes) >= 1
    /\ ConnectedGraph(cd)
    /\ \A id \in SetOf(cd.boxes) : Incident(cd, id) <= 2
    /\ Len(cd.connections) = Len(cd.boxes) - 1

\* route lists every box once, in chain order read from an end of the chain
InChainOrder(cd, route) ==
    /\ Len(route) = Len(cd.boxes)
    /\ SetOf(route) = SetOf(cd.boxes)
    /\ \A i \in 1..(Len(route) - 1) : Joined(cd, route[i], route[i + 1])
    /\ Len(route) >= 2 =>
         /\ Incident(cd, route[1]) = 1
         /\ Incident(cd, route[Len(route)]) = 1

\* The ids of the waypoints of an exported url
ExportedBoxes ==
    [i \in DOMAIN exported.url |-> exported.url[i].box]

\* C15 (as claimed): on a graph whose connections join boxes of the node
\* list, areAllBoxesConnected returns true if and only if the graph is one
\* connected simple path; it returns false for a connected graph with a box
\* that has three neighbours.
C15_TrueIffSimplePath ==
    WellFormed(canvasData) =>
        /\ ~areAllBoxesConnected(canvasData).threw
        /\ areAllBoxesConnected(canvasData).value <=> SimplePath(canvasData)

\* C16: on a graph of N >= 1 boxes whose N-1 connections form a simple
\* chain, whatever the order of the connection list and the direction of
\* each connection, and wherever the boxes of the chain stand in the node
\* list, buildOrderedRoute returns all N boxes, each once, in chain order
\* read from one of the two ends; the export lists them in that order.
C16_ChainInChainOrder ==
    (WellFormed(canvasData) /\ SimplePath(canvasData)) =>
        /\ ~buildOrderedRoute(canvasData).threw
        /\ InChainOrder(canvasData, buildOrderedRoute(canvasData).value)
        /\ exported.called => ExportedBoxes = buildOrderedRoute(canvasData).value

\* C16 witness: a chain 2 - 4 - 1 - 3 whose connections are listed out of
\* chain order and point both ways was linearized from the end 2, which is
\* not the first box of the list
C16_Witness ==
    /\ exported.called
    /\ SimplePath(canvasData)
    /\ Len(canvasData.boxes) = 4
    /\ ExportedBoxes = <<2, 4, 1, 3>>
    /\ canvasData.connections[1].from = 3 /\ canvasData.connections[1].to = 1
    /\ canvasData.connections[2].from = 2 /\ canvasData.connections[2].to = 4
    /\ canvasData.connections[3].from = 1 /\ canvasData.connections[3].to = 4

ExportPreconditionFails(cd) ==
    \/ Len(cd.boxes) = 0
    \/ Len(cd.boxes) > 1 /\ Len(cd.connections) = 0
    \/ ~ConnectedGraph(cd)

C19_ExportCoversEveryBox ==
    (exported.called /\ WellFormed(canvasData) /\ exported.url # <<>>) =>
        /\ Len(exported.url) = Len(canvasData.boxes)
        /\ ExportedBoxes = buildOrderedRoute(canvasData).value
        /\ SetOf(ExportedBoxes) = SetOf(canvasData.boxes)

\* ---------------------------------------------------------------------
\* Travel-time lookups on the canvas
\* ---------------------------------------------------------------------

\* The durations fetchTravelTime can find in the text of the bridge
Durations ==
    {TravelTime(a, b) : a \in Addresses, b \in Addresses}

\* A duration that some lookup, or the planner, has computed
Computed(d) ==
    d \notin {NoDuration, Calculating, Unknown}

\* The connections from one box to another on a canvas
LegsOf(cd, from, to) ==
    {i \in DOMAIN cd.connections :
        cd.connections[i].from = from /\ cd.connections[i].to = to}

\* The connections from or to a box
LegsAt(cd, id) ==
    {i \in DOMAIN cd.connections :
        cd.connections[i].from = id \/ cd.connections[i].to = id}

\* In this step the handler suspended as l runs on from its await
Resumes(l) ==
    l \in lookups /\ l \notin lookups'

\* In this step the user makes an operation on the canvas
UserActs ==
    ops' = ops + 1

\* C11: fetchTravelTime never throws: whatever the outcome of its request,
\* the handler that awaited it gets a duration or Unknown, and when it has
\* run on the connection it linked or looked up is on the canvas with
\* that value and the box it edited has the address typed.
C11_LookupNeverThrows ==
    [][\A l \in lookups :
          Resumes(l) =>
             LET conn == l.canvasData.connections[l.at]
             IN  /\ ~done'.threw
                 /\ done'.value \in Durations \cup {Unknown}
                 /\ LegsOf(canvasData', conn.from, conn.to) # {}
                 /\ \A i \in LegsOf(canvasData', conn.from, conn.to) :
                        canvasData'.connections[i].duration = done'.value
                 /\ l.kind = "updateBox" =>
                        canvasData'.address[l.id] = l.canvasData.address[l.id]
      ]_vars

\* A lookup whose request failed has ended: the handler got Unknown and the
\* connection is on the canvas with it
C11_Witness ==
    /\ done.kind # "none"
    /\ ~done.threw
    /\ done.value = Unknown
    /\ \E i \in LegsOf(canvasData, done.from, done.to) :
          canvasData.connections[i].duration = Unknown

\* C12: when a connection is made, or the address of a box is edited, so
\* that a box of the connection has a blank address, no lookup is started
\* and the connection has no computed duration after the operation.
C12_BlankAddressClearsDuration ==
    [][UserActs =>
          /\ \A id \in BoxIds :
                (/\ HasBox(canvasData'.boxes, id)
                 /\ canvasData'.address[id] # canvasData.address[id]
                 /\ Trim(canvasData'.address[id]) = "") =>
                   /\ lookups' = lookups
                   /\ \A i \in LegsAt(canvasData', id) :
                         ~Computed(canvasData'.connections[i].duration)
          /\ (/\ canvasData'.boxes = canvasData.boxes
              /\ Len(canvasData'.connections) =
                    Len(canvasData.connections) + 1) =>
                LET conn == canvasData'.connections[Len(canvasData'.connections)]
                IN  (\/ Trim(canvasData'.address[conn.from]) = ""
                     \/ Trim(canvasData'.address[conn.to]) = "") =>
                       /\ lookups' = lookups
                       /\ conn.duration = NoDuration
      ]_vars

\* C13: when a lookup ends, the handler changes the duration of its
\* connection and nothing else: the boxes, their addresses and every
\* other connection of the canvas are as they were just before.
C13_CompletionChangesOnlyItsLeg ==
    [][\A l \in lookups :
          Resumes(l) =>
             LET conn == l.canvasData.connections[l.at]
             IN  /\ canvasData'.boxes = canvasData.boxes
                 /\ canvasData'.address = canvasData.address
                 /\ Len(canvasData'.connections) = Len(canvasData.connections)
                 /\ \A i \in DOMAIN canvasData.connections :
                        \/ canvasData'.connections[i] = canvasData.connections[i]
                        \/ /\ canvasData.connections[i].from = conn.from
                           /\ canvasData.connections[i].to = conn.to
                           /\ canvasData'.connections[i] =
                                 [canvasData.connections[i] EXCEPT
                                    !.duration = done'.value]
      ]_vars

\* ---------------------------------------------------------------------
\* Durations of an optimization result
\* ---------------------------------------------------------------------

\* A trip with addresses and no connection is opened; the operations of
\* the user are to optimize it and to edit addresses.  Every connection of
\* the canvas is then one of an optimization result.
InitResolve ==
    /\ InitCanvas
    /\ canvasData.connections = <<>>
    /\ canvasData.address = Placed(Len(canvasData.boxes))

NextResolve ==
    \/ openOptimize /\ UNCHANGED ops
    \/ closeOptimize /\ UNCHANGED ops
    \/ clickOptimize /\ Spend
    \/ ResponseArrives /\ UNCHANGED ops
    \/ typeAddress
    \/ LookupReturns

\* A response that is awaited arrives and a request of fetchTravelTime
\* ends (the bridge answers or times out); the user is free to do nothing.
SpecResolve ==
    /\ InitResolve
    /\ [][NextResolve]_vars
    /\ WF_vars(ResponseArrives /\ UNCHANGED ops)
    /\ WF_vars(LookupReturns)

\* The connection from one box to another is on the canvas, both boxes
\* have an address, and its duration is the pending marker or is missing
PendingLeg(from, to) ==
    \E i \in LegsOf(canvasData, from, to) :
        /\ HasAddress(canvasData, from)
        /\ HasAddress(canvasData, to)
        /\ canvasData.connections[i].duration \in {Calculating, NoDuration}

\* C14: a connection of an applied optimization result that has the
\* pending marker or no duration, between boxes with addresses, does not
\* stay so forever: it gets a duration or Unknown.
C14_PendingIsResolved ==
    \A from, to \in 1..MaxBoxes :
        PendingLeg(from, to) ~> ~PendingLeg(from, to)

\* C20: when a successful optimization result is applied, the connections
\* of the canvas become those of the result and the boxes stay as they
\* were just before; a response that is an error changes nothing.
C20_ResultReplacesConnectionsOnly ==
    [][(flight.active /\ ~flight'.active) =>
          \/ canvasData' = canvasData
          \/ /\ canvasData'.boxes = canvasData.boxes
             /\ canvasData'.address = canvasData.address
             /\ \E o \in BridgeOutcomes(FlightRequest) \cup {TimeoutError} :
                   /\ POST(FlightRequest, o).success
                   /\ canvasData'.connections =
                         POST(FlightRequest, o).connections
      ]_vars

\* ---------------------------------------------------------------------
\* Connections and the boxes they join
\* ---------------------------------------------------------------------

\* C21: every connection of the canvas goes from a box of the canvas to a
\* box of the canvas.
C21_EndpointsAreBoxes ==
    \A i \in DOMAIN canvasData.connections :
        /\ HasBox(canvasData.boxes, canvasData.connections[i].from)
        /\ HasBox(canvasData.boxes, canvasData.connections[i].to)

\* Some connection of the canvas joins the two boxes, either way round
Linked(cd, a, b) ==
    \E i \in DOMAIN cd.connections :
        {cd.connections[i].from, cd.connections[i].to} = {a, b}

\* In this step the user releases the button on an attachment point with
\* a link started: a connection is appended or the link is given up
Releases ==
    /\ UserActs
    /\ connectingFrom # NoPoint
    /\ canvasData'.boxes = canvasData.boxes
    /\ \/ Len(canvasData'.connections) = Len(canvasData.connections) + 1
       \/ connectingFrom' = NoPoint

\* C22: a link never makes a connection from a box to itself nor one
\* between two boxes that a connection joins already, either way round;
\* a release that makes no connection leaves the connections as they
\* are, starts no lookup and clears connectingFrom.
C22_NoSelfLoopNoDuplicate ==
    [][Releases =>
          IF Len(canvasData'.connections) = Len(canvasData.connections) + 1
          THEN LET new == canvasData'.connections[Len(canvasData'.connections)]
               IN  /\ new.from = connectingFrom.boxId
                   /\ new.from # new.to
                   /\ ~Linked(canvasData, new.from, new.to)
                   /\ SubSeq(canvasData'.connections, 1,
                             Len(canvasData.connections))
                        = canvasData.connections
          ELSE /\ canvasData'.connections = canvasData.connections
               /\ lookups' = lookups
               /\ connectingFrom' = NoPoint
      ]_vars

\* A link between two boxes that were joined already was given up
C22_Witness ==
    /\ released.from # NoId
    /\ released.from # released.to
    /\ ~released.made
    /\ Linked(canvasData, released.from, released.to)
    /\ connectingFrom = NoPoint

\* The connections updateBox looks up for the call suspended as l: those
\* from or to its box that had no duration or Unknown, between boxes with
\* addresses
Eligible(l) ==
    {i \in LegsAt(l.canvasData, l.id) :
        /\ l.canvasData.connections[i].duration \in {NoDuration, Unknown}
        /\ HasAddress(l.canvasData, l.canvasData.connections[i].from)
        /\ HasAddress(l.canvasData, l.canvasData.connections[i].to)}

\* C25: when updateBox, the only operation made on the canvas, has run to
\* its end, each connection it had to look up has what its own lookup
\* returned: the travel time between the addresses of its boxes, or
\* Unknown.
C25_EveryLegGetsItsLookup ==
    [][\A l \in lookups :
          (/\ Resumes(l)
           /\ l.kind = "updateBox"
           /\ l.rest = <<>>
           /\ ops = 1) =>
             \A i \in Eligible(l) :
                LET conn == canvasData'.connections[i]
                IN  conn.duration \in
                      {TravelTime(canvasData'.address[conn.from],
                                  canvasData'.address[conn.to]),
                       Unknown}
      ]_vars

\* C30: with no lookup in flight, a connection between boxes with
\* addresses that has a computed duration has the travel time between the
\* addresses its boxes have now.
C30_NoStaleDuration ==
    lookups = {} =>
        \A i \in DOMAIN canvasData.connections :
            LET conn == canvasData.connections[i]
            IN  (/\ Computed(conn.duration)
                 /\ HasAddress(canvasData, conn.from)
                 /\ HasAddress(canvasData, conn.to)) =>
                    conn.duration = TravelTime(canvasData.address[conn.from],
                                               canvasData.address[conn.to])

\* ---------------------------------------------------------------------
\* The linearizer on any graph
\* ---------------------------------------------------------------------

\* The number of ends of connections at box id: a connection from a box
\* to itself has both its ends there
Degree(cd, id) ==
    Cardinality({i \in DOMAIN cd.connections : cd.connections[i].from = id})
    + Cardinality({i \in DOMAIN cd.connections : cd.connections[i].to = id})

\* route has no box twice, and each box of it is joined to the next
IsPath(cd, route) ==
    /\ \A i, j \in DOMAIN route : route[i] = route[j] => i = j
    /\ \A i \in DOMAIN route : route[i] \in SetOf(cd.boxes)
    /\ \A i \in 1..(Len(route) - 1) : Joined(cd, route[i], route[i + 1])

DirectedChain(cd) ==
    /\ Len(cd.boxes) >= 2
    /\ SimplePath(cd)
    /\ \A id \in SetOf(cd.boxes) :
          /\ Cardinality({i \in DOMAIN cd.connections :
                             cd.connections[i].from = id}) <= 1
          /\ Cardinality({i \in DOMAIN cd.connections :
                             cd.connections[i].to = id}) <= 1

\* The box of a directed chain no connection leads to, and the box no
\* connection leads from
ChainFirst(cd) ==
    CHOOSE id \in SetOf(cd.boxes) :
        \A i \in DOMAIN cd.connections : cd.connections[i].to # id

ChainLast(cd) ==
    CHOOSE id \in SetOf(cd.boxes) :
        \A i \in DOMAIN cd.connections : cd.connections[i].from # id

\* C29: the export of a directed chain, such as an optimization result
\* puts on the canvas, starts at the first box of the chain and ends at
\* its last box, wherever the boxes stand in the node list.
C29_ExportFollowsDirection ==
    (/\ exported.called
     /\ WellFormed(canvasData)
     /\ DirectedChain(canvasData)) =>
        /\ exported.url # <<>>
        /\ ExportedBoxes[1] = ChainFirst(canvasData)
        /\ ExportedBoxes[Len(ExportedBoxes)] = ChainLast(canvasData)

\* ---------------------------------------------------------------------
\* lib/maps.ts: ensureHttpClient
\* ---------------------------------------------------------------------

\* Everything but the client of the maps bridge stays as it is
OnlyMaps ==
    /\ UNCHANGED <<pc, request, queries, bridge, timer, raced, answer, first,
                   response, textVars>>
    /\ UNCHANGED pageVars

\* The calls suspended at an await
Suspended == {"testing", "connecting", "backoff"}

\* The id new Client() gets: one that neither mcpClient nor a call awaiting
\* a client holds
NewClient ==
    CHOOSE id \in ClientIds :
        /\ id # mcpClient
        /\ \A c \in 1..MaxCalls :
              calls[c].pc \in {"testing", "connecting"} => calls[c].client # id

\* The clients that mcpClient or an awaiting call cs still holds; the others
\* are garbage, and nothing of them is kept
Held(cls, client, cs) ==
    [id \in ClientIds |->
       IF \/ id = client
          \/ \E c \in 1..MaxCalls :
                cs[c].pc \in {"testing", "connecting"} /\ cs[c].client = id
       THEN cls[id] ELSE "none"]

\* What has become of connect() of the client a return statement reads
\* from mcpClient
Got(client, cls) ==
    IF client = NoClient THEN "null" ELSE cls[client]

\* Lines 51-70, up to the await, of call c among the calls base, mcpClient
\* and mcpConnected being client and connected by now: the call throws when
\* connectionAttempts has reached MAX_CONNECTION_ATTEMPTS; else it counts
\* the attempt, puts a new client in mcpClient and awaits its connect (or
\* the 10 s timeout).
attempt(c, base, client, connected) ==
    IF connectionAttempts >= MAX_CONNECTION_ATTEMPTS
    THEN /\ calls' = [base EXCEPT ![c].pc = "failed", ![c].client = NoClient]
         /\ mcpClient' = client
         /\ mcpConnected' = connected
         /\ clients' = Held(clients, mcpClient', calls')
         /\ UNCHANGED connectionAttempts
    ELSE /\ connectionAttempts' = connectionAttempts + 1
         /\ mcpClient' = NewClient
         /\ mcpConnected' = connected
         /\ calls' = [base EXCEPT ![c].pc = "connecting",
                                  ![c].client = NewClient,
                                  ![c].tries = @ + 1]
         /\ clients' = Held([clients EXCEPT ![NewClient] = "pending"],
                            mcpClient', calls')

\* Lines 38-70, up to the first await: with a client that is connected the
\* call tests it (line 42), else it goes on to connect
ensureHttpClient(c, base) ==
    IF mcpClient # NoClient /\ mcpConnected
    THEN /\ calls' = [base EXCEPT ![c].pc = "testing", ![c].client = mcpClient]
         /\ UNCHANGED <<mcpClient, mcpConnected, connectionAttempts, clients>>
    ELSE attempt(c, base, mcpClient, mcpConnected)

\* geminiMaps, line 111: a query calls ensureHttpClient. The call records
\* whether it was issued with the bridge reachable again after attempts
\* failed while it was down.
geminiMaps(c) ==
    /\ calls[c].pc \notin Suspended
    /\ issued < MaxQueries
    /\ issued' = issued + 1
    /\ ensureHttpClient(c, [calls EXCEPT
                              ![c] = Call("idle", NoClient, 0,
                                          up /\ failedDown, "none")])
    /\ UNCHANGED <<up, failedDown>>
    /\ OnlyMaps

\* Lines 42-47: listResources() of the tested client settles. It can only
\* succeed on a connected client with the bridge reachable, and the call
\* then returns what mcpClient holds by now (line 43); when it fails the
\* call drops the client and goes on to connect.
listResourcesSettles(c) ==
    /\ calls[c].pc = "testing"
    /\ \/ /\ up
          /\ clients[calls[c].client] = "connected"
          /\ calls' = [calls EXCEPT ![c].pc = "returned",
                                    ![c].client = NoClient,
                                    ![c].got = Got(mcpClient, clients)]
          /\ clients' = Held(clients, mcpClient, calls')
          /\ UNCHANGED <<mcpClient, mcpConnected, connectionAttempts>>
       \/ attempt(c, calls, NoClient, FALSE)
    /\ UNCHANGED <<up, failedDown, issued>>
    /\ OnlyMaps

\* Lines 70-90: the race of connect() and the timeout settles. It can only
\* succeed with the bridge reachable: the call sets mcpConnected, resets
\* connectionAttempts and returns what mcpClient holds by now (line 76).
\* When it fails the call drops the client, and throws at the maximum of
\* attempts or else waits for the backoff.
connectSettles(c) ==
    /\ calls[c].pc = "connecting"
    /\ \/ /\ up
          /\ mcpConnected' = TRUE
          /\ connectionAttempts' = 0
          /\ \E cls \in {[clients EXCEPT ![calls[c].client] = "connected"]} :
                /\ calls' = [calls EXCEPT ![c].pc = "returned",
                                          ![c].client = NoClient,
                                          ![c].got = Got(mcpClient, cls)]
                /\ clients' = Held(cls, mcpClient, calls')
          /\ UNCHANGED <<mcpClient, failedDown>>
       \/ /\ mcpConnected' = FALSE
          /\ mcpClient' = NoClient
          /\ calls' = [calls EXCEPT
                         ![c].pc = IF connectionAttempts
                                       >= MAX_CONNECTION_ATTEMPTS
                                   THEN "failed" ELSE "backoff",
                         ![c].client = NoClient]
          /\ clients' = Held([clients EXCEPT ![calls[c].client] = "failed"],
                             NoClient, calls')
          /\ failedDown' = (failedDown \/ ~up)
          /\ UNCHANGED connectionAttempts
    /\ UNCHANGED <<up, issued>>
    /\ OnlyMaps

\* Lines 89-92: the backoff is over and the call starts again
backoffEnds(c) ==
    /\ calls[c].pc = "backoff"
    /\ ensureHttpClient(c, calls)
    /\ UNCHANGED <<up, failedDown, issued>>
    /\ OnlyMaps

\* The bridge at MCP_URL goes down: no call in flight has had it reachable
\* throughout
bridgeGoesDown ==
    /\ up
    /\ up' = FALSE
    /\ calls' = [c \in 1..MaxCalls |->
                   IF calls[c].pc \in Suspended
                   THEN [calls[c] EXCEPT !.clean = FALSE] ELSE calls[c]]
    /\ UNCHANGED <<mcpClient, mcpConnected, connectionAttempts, clients,
                   failedDown, issued>>
    /\ OnlyMaps

\* The bridge is reachable again
bridgeComesUp ==
    /\ ~up
    /\ up' = TRUE
    /\ UNCHANGED <<mcpClient, mcpConnected, connectionAttempts, clients,
                   calls, failedDown, issued>>
    /\ OnlyMaps

NextMaps ==
    \/ \E c \in 1..MaxCalls : geminiMaps(c)
    \/ \E c \in 1..MaxCalls : listResourcesSettles(c)
    \/ \E c \in 1..MaxCalls : connectSettles(c)
    \/ \E c \in 1..MaxCalls : backoffEnds(c)
    \/ bridgeGoesDown
    \/ bridgeComesUp

SpecMaps == Init /\ [][NextMaps]_vars

\* ---------------------------------------------------------------------
\* route.ts: the JSON of the answer, lines 83-88
\* ---------------------------------------------------------------------

\* The characters of an answer: the braces, "p" for the members of a
\* payload that passes the checks of lines 91-110 (a path list, a
\* connections list), "w" for prose
Chars == {"{", "}", "p", "w"}

\* The answers of up to n characters
TextsOf(n) == UNION {[1..k -> Chars] : k \in 0..n}

\* The opening braces less the closing ones among the first n characters
Depth(text, n) ==
    Cardinality({i \in 1..n : text[i] = "{"})
        - Cardinality({i \in 1..n : text[i] = "}"})

\* Line 83, response.match(/\{[\s\S]*\}/): the pattern is greedy, the match
\* goes from the first "{" to the last "}" of the text; <<>> for null
jsonMatch(text) ==
    LET opens == {i \in 1..Len(text) : text[i] = "{"}
        closes == {i \in 1..Len(text) : text[i] = "}"}
    IN  IF opens = {} \/ closes = {} THEN <<>>
        ELSE LET from == CHOOSE i \in opens : \A j \in opens : i <= j
                 to == CHOOSE i \in closes : \A j \in closes : j <= i
             IN  IF from < to THEN SubSeq(text, from, to) ELSE <<>>

\* Line 88, JSON.parse: it takes one object and nothing else, braces
\* balanced and closed only by the last character, no prose inside
JSONparse(text) ==
    /\ Len(text) >= 2
    /\ text[1] = "{"
    /\ Depth(text, Len(text)) = 0
    /\ \A n \in 1..(Len(text) - 1) : Depth(text, n) >= 1
    /\ \A i \in 1..Len(text) : text[i] # "w"

\* Lines 91-110: the checks pass when the object itself has the members of
\* a payload
passesChecks(text) ==
    \E i \in 1..Len(text) : text[i] = "p" /\ Depth(text, i) = 1

\* Lines 83-110 on the answer raw: the match, and whether the result is
\* returned rather than the fallback of lines 117-135
parseResponse ==
    /\ parsed = NotParsed
    /\ parsed' = IF jsonMatch(raw) = <<>> THEN NotParsed
                 ELSE Parsed(TRUE,
                             JSONparse(jsonMatch(raw))
                                /\ passesChecks(jsonMatch(raw)),
                             jsonMatch(raw))
    /\ UNCHANGED <<raw, mapsVars>>
    /\ UNCHANGED <<pc, request, queries, bridge, timer, raced, answer, first,
                   response>>
    /\ UNCHANGED pageVars

\* The bridge has answered with any text of up to MaxText characters
InitResponse ==
    /\ pc = "idle"
    /\ request = NoRequest
    /\ queries = 0
    /\ bridge = "none"
    /\ timer = "none"
    /\ raced = Pending
    /\ answer = Pending
    /\ first = "none"
    /\ response = NoResponse
    /\ canvasData = Canvas(<<>>, <<>>)
    /\ nextBox = 1
    /\ isOptimizeOpen = FALSE
    /\ isOptimizing = FALSE
    /\ flight = NoFlight
    /\ connectingFrom = NoPoint
    /\ lookups = {}
    /\ done = NoDone
    /\ released = NoRelease
    /\ ops = 0
    /\ exported = NoExport
    /\ InitMaps
    /\ raw \in TextsOf(MaxText)
    /\ parsed = NotParsed

NextText == parseResponse

SpecText == InitResponse /\ [][NextText]_vars

\* The first balanced object of a text: from its first "{" to the first
\* "}" that closes it; <<>> when there is none
FirstBalanced(text) ==
    LET opens == {i \in 1..Len(text) : text[i] = "{"}
    IN  IF opens = {} THEN <<>>
        ELSE LET from == CHOOSE i \in opens : \A j \in opens : i <= j
                 rest == SubSeq(text, from, Len(text))
                 ends == {n \in 1..Len(rest) : Depth(rest, n) = 0}
             IN  IF ends = {} THEN <<>>
                 ELSE SubSeq(rest, 1,
                             CHOOSE n \in ends : \A m \in ends : n <= m)

\* C23: when the answer holds a valid payload object wrapped in prose, the
\* validator extracts the first balanced object and accepts it, also when
\* the prose before or after it has braces or a second object.
C23_ExtractsFirstBalancedObject ==
    parsed.matched
       /\ JSONparse(FirstBalanced(raw)) /\ passesChecks(FirstBalanced(raw))
       => parsed.ok /\ parsed.text = FirstBalanced(raw)

\* C24: connecting to the maps bridge is retried a bounded number of times:
\* connectionAttempts never exceeds MAX_CONNECTION_ATTEMPTS, no call of
\* ensureHttpClient makes more than MAX_CONNECTION_ATTEMPTS attempts, and a
\* call whose third attempt has failed has failed with an error instead of
\* waiting for another attempt.
C24_BoundedRetry ==
    /\ connectionAttempts <= MAX_CONNECTION_ATTEMPTS
    /\ \A c \in 1..MaxCalls :
          /\ calls[c].tries <= MAX_CONNECTION_ATTEMPTS
          /\ calls[c].pc = "backoff"
                => calls[c].tries < MAX_CONNECTION_ATTEMPTS

\* C27: the client of the maps bridge recovers after an outage: a query
\* issued with the bridge reachable again, after attempts failed while it
\* was down, does not fail without an attempt to connect.
C27_RecoversAfterOutage ==
    \A c \in 1..MaxCalls :
        calls[c].pc = "failed" /\ calls[c].clean => calls[c].tries > 0

\* C28: under every interleaving of the calls of ensureHttpClient, whenever
\* mcpConnected is true mcpClient is a client whose connect succeeded, and
\* a call that returns returns such a client: never null, never a client
\* whose connect is pending or has failed.
C28_SharedClientConsistent ==
    /\ mcpConnected
          => mcpClient # NoClient /\ clients[mcpClient] = "connected"
    /\ \A c \in 1..MaxCalls :
          calls[c].pc = "returned" => calls[c].got = "connected"

====
